---- MODULE Spec2Model ----
(***************************************************************************)
(* The claim-processing pipeline of the RCM co-pilot: the upload and       *)
(* submit endpoints (api/routers/claims.py), the Celery jobs               *)
(* process_claim_creation and process_adjudication (tasks.py) and the      *)
(* CRUD operations they call (crud/crud_claim.py, crud_policy_benefit.py). *)
(* One patient and one claim are modelled; jobs of different claims share  *)
(* nothing but the patient's documents.                                    *)
(***************************************************************************)
EXTENDS Integers, Sequences, FiniteSets, TLC

\* ---------------------------------------------------------------- bounds
\* files in one upload request
MaxFiles == 1
\* calls of the simulate-outcome (submit) endpoint
MaxSubmits == 2
\* calls of get_or_parse_document_text by the cache harness (SpecCache)
MaxCalls == 3
\* jobs reading the same document at the same time (SpecReaders)
MaxReaders == 2
\* policy_benefits rows of the patient in a stage call (SpecStages)
MaxBenefits == 2
\* codes in one list passed to a stage function (SpecStages)
MaxCodes == 2
\* runs of process_policy_document for one document (SpecPolicy)
MaxRuns == 2

\* largest value of the retries argument of call_llm_with_reasoning
MaxRetries == 2
\* documents of one patient when parsed_docs is built (SpecDocs)
MaxDocs == 3

\* ------------------------------------------------------------- constants
\* Python None / SQL NULL, for string-valued columns
NULL == "NULL"
\* SQL NULL of a DateTime column. A timestamp is modelled by the ordinal of
\* the call that read the clock (>= 1): every reading gives a new value
NoDate == 0
\* SQL NULL of the JSONB column compliance_flags (a list otherwise)
NullFlags == <<NULL>>

\* models/claim.py ClaimStatus
ClaimStatus ==
    {"draft", "processing", "submitted", "approved", "denied", "paid", "resubmitted"}

\* document_purpose values the upload endpoint infers from a file name
Purposes == {"POLICY_DOC", "ENCOUNTER_NOTE"}

\* texts the external parser can return: result_json.get("markdown", ...)
ParseTexts == {"", "# note"}

\* parse_document_async line 51: the text returned when the parser's answer
\* has no "markdown" key
MarkdownNotFound == "Error: Parsed markdown not found in response."

\* every text a parse call can give
ParserOutputs == ParseTexts \cup {MarkdownNotFound}

NoDocsReason == "No documents found for patient."
InternalErrorPrefix == "Internal Processing Error: "
InvalidAdjudicationReason == "Processing Error: Invalid adjudication response from AI."

InactiveNoPolicy == "Inactive - No Policy on File"
Active == "Active"

VARIABLES
    claim,          \* the claims row (claim.exists = FALSE before the upload)
    service_lines,  \* the service_lines rows of the claim, in insertion order
    documents,      \* the documents rows of the patient, in insertion order
    benefits,       \* the policy_benefits rows of the patient
    cj,             \* the process_claim_creation job of the claim
    aj,             \* the process_adjudication jobs dispatched and not yet returned
    submits,        \* number of submit calls so far
    adjudications,  \* number of adjudication results written so far
    response,       \* the body of the last simulate-outcome response
    h,              \* the caller of the cache harness (SpecCache only)
    readers,        \* jobs reading one document concurrently (SpecReaders only)
    pj,             \* the process_policy_document job (SpecPolicy only)
    call            \* one call of a stage function or LLM helper (SpecStages, SpecLLM)

vars == <<claim, service_lines, documents, benefits, cj, aj, submits,
          adjudications, response, h, readers, pj, call>>

\* ------------------------------------------------------------ the tables
\* models/claim.py: the columns the pipeline reads or writes
NoClaim ==
    [exists |-> FALSE, status |-> NULL, payer_name |-> NULL,
     eligibility_status |-> NULL, patient_responsibility_amount |-> NULL,
     compliance_flags |-> NullFlags, payer_paid_amount |-> NULL,
     submission_date |-> NoDate, adjudication_date |-> NoDate,
     denial_reason |-> NULL, denial_root_cause |-> NULL,
     denial_recommended_action |-> NULL]

\* create_claim: a placeholder row in status processing; eligibility_status
\* takes its column default
create_claim ==
    [NoClaim EXCEPT !.exists = TRUE, !.status = "processing",
                    !.eligibility_status = "Unknown"]

\* create_document_for_claim: a documents row; parsed_text is NULL until the
\* first parse
create_document_for_claim(purpose) ==
    [document_purpose |-> purpose, parsed_text |-> NULL]

\* a variant of update_claim_status that drops the reason
update_claim_status_no_reason(c, status, denial_reason) == [c EXCEPT !.status = status]

\* update_claim_status: status always, denial_reason only when one is given
update_claim_status(c, status, denial_reason) ==
    [c EXCEPT !.status = status,
              !.denial_reason = IF denial_reason # NULL /\ denial_reason # ""
                                THEN denial_reason ELSE @]

\* a variant of find_document_by_purpose that takes any document
find_any_document(docs, purpose) == IF Len(docs) > 0 THEN 1 ELSE 0

\* find_document_by_purpose: index of the first document of the patient with
\* the purpose, 0 when there is none
find_document_by_purpose(docs, purpose) ==
    IF \E i \in 1..Len(docs) : docs[i].document_purpose = purpose
    THEN CHOOSE i \in 1..Len(docs) :
            /\ docs[i].document_purpose = purpose
            /\ \A j \in 1..(i - 1) : docs[j].document_purpose # purpose
    ELSE 0

\* ------------------------------------------------- the parse-with-cache
\* `if doc.parsed_text:` -- Python truthiness: None and "" are both false
IsCached(doc) == doc.parsed_text # NULL /\ doc.parsed_text # ""

\* get_or_parse_document_text, lines 36-39: the parser's text is saved
parse_saved_row(doc, text) == [doc EXCEPT !.parsed_text = text]

\* --------------------------------------------------------- eligibility
\* "visit" in b.benefit_type.lower(), over the benefit types of the model
BenefitTypes == {"Office Visit", "Emergency Room"}
MentionsVisit(t) == t \in {"Office Visit"}

\* a variant of check_claim_eligibility that is active only with a visit benefit
check_claim_eligibility_needs_visit(bs) ==
    IF \E i \in 1..Len(bs) : MentionsVisit(bs[i].benefit_type)
          /\ bs[i].co_pay_amount \notin {NULL, "0"}
    THEN <<Active, (CHOOSE i \in 1..Len(bs) : MentionsVisit(bs[i].benefit_type)
                      /\ bs[i].co_pay_amount \notin {NULL, "0"}).co_pay_amount>>
    ELSE <<InactiveNoPolicy, "0.0">>

\* check_claim_eligibility: (status, patient responsibility)
check_claim_eligibility(bs) ==
    IF Len(bs) = 0 THEN <<InactiveNoPolicy, "0.0">>
    ELSE LET hits == {i \in 1..Len(bs) : MentionsVisit(bs[i].benefit_type)}
             first == CHOOSE i \in hits : \A j \in hits : i <= j
         IN IF hits # {} /\ bs[first].co_pay_amount \notin {NULL, "0"}
            THEN <<Active, bs[first].co_pay_amount>>
            ELSE <<Active, "0.0">>


\* ------------------------------------------------- the reference catalog
\* medical_codes rows (read-only reference data)
Catalog ==
    {[code_value |-> "99214", code_type |-> "CPT", description |-> "Office visit"],
     [code_value |-> "S93401A", code_type |-> "ICD-10", description |-> "Ankle sprain"]}

UnverifiedDescription == "AI Suggested Code (Unverified)"

InCodeMap(code_val, suggested) ==
    \E m \in Catalog : m.code_value = code_val /\ code_val \in suggested

CodeMap(code_val) == CHOOSE m \in Catalog : m.code_value = code_val

Range(seq) == {seq[i] : i \in 1..Len(seq)}

\* a variant of validate_codes that is as strict with CPT codes as with ICD-10
validate_codes_strict(suggested_cpt_codes, suggested_icd10_codes) ==
    LET all == Range(suggested_cpt_codes) \cup Range(suggested_icd10_codes)
        InMap(x) == InCodeMap(x, all)
        Row(x) == [code |-> CodeMap(x).code_value, description |-> CodeMap(x).description]
        cpt == SelectSeq(suggested_cpt_codes, InMap)
        icd == SelectSeq(suggested_icd10_codes, InMap)
    IN [cpt_codes |-> [i \in 1..Len(cpt) |-> Row(cpt[i])],
        icd10_codes |-> [i \in 1..Len(icd) |-> Row(icd[i])]]

\* validate_codes: every suggested CPT code is kept (catalog description or
\* the placeholder); an ICD-10 code is kept only when code_map holds it
validate_codes(suggested_cpt_codes, suggested_icd10_codes) ==
    LET all == Range(suggested_cpt_codes) \cup Range(suggested_icd10_codes)
        InMap(x) == InCodeMap(x, all)
        cpt == [i \in 1..Len(suggested_cpt_codes) |->
                  IF InMap(suggested_cpt_codes[i])
                  THEN [code |-> CodeMap(suggested_cpt_codes[i]).code_value,
                        description |-> CodeMap(suggested_cpt_codes[i]).description]
                  ELSE [code |-> suggested_cpt_codes[i],
                        description |-> UnverifiedDescription]]
        kept == SelectSeq(suggested_icd10_codes, InMap)
        icd == [i \in 1..Len(kept) |->
                  [code |-> CodeMap(kept[i]).code_value,
                   description |-> CodeMap(kept[i]).description]]
    IN [cpt_codes |-> cpt, icd10_codes |-> icd]

\* what a call of get_embeddings can meet: no client configured, an error
\* of the embeddings API, or a vector
EmbeddingOutcomes == {"no client", "api error", "vector"}

\* get_embeddings, lines 33-47: without a client it raises; an API error is
\* logged and an empty vector returned for each text
get_embeddings(outcome) ==
    [raised |-> outcome = "no client",
     vector |-> IF outcome = "vector" THEN <<1>> ELSE <<>>]

\* a variant of find_similar_icd10_codes that embeds before looking at the terms
find_similar_icd10_codes_embed_first(search_terms, outcome) ==
    LET e == get_embeddings(outcome)
    IN IF Len(search_terms) = 0 \/ e.raised \/ e.vector = <<>>
       THEN [candidates |-> <<>>, embedding |-> outcome]
       ELSE [candidates |-> <<"S93401A">>, embedding |-> outcome]

\* find_similar_icd10_codes: no terms => no candidates and no embedding call;
\* get_embeddings raising or giving an empty vector => no candidates;
\* otherwise the nearest ICD-10 rows of the catalog. embedding: what the call
\* of get_embeddings met, "not called" without a call
find_similar_icd10_codes(search_terms, outcome) ==
    IF Len(search_terms) = 0
    THEN [candidates |-> <<>>, embedding |-> "not called"]
    ELSE LET e == get_embeddings(outcome)
         IN IF e.raised \/ e.vector = <<>>
            THEN [candidates |-> <<>>, embedding |-> outcome]
            ELSE [candidates |-> <<"S93401A">>, embedding |-> outcome]

\* apply_modifiers, lines 271-287: the AI's list is taken only when it has
\* as many usable elements as the input; each is cut to 10 characters
Cut10(code) == IF code = "99214-25-MODIFIER" THEN "99214-25-M" ELSE code

\* an element of the AI's array that is neither a str nor an int (null, an
\* object, a list)
NotACode == "<not str or int>"

\* isinstance(code, (str, int))
IsStrOrInt(code) == code # NotACode

apply_modifiers(cpt_codes, has_key, modified_cpt_codes) ==
    LET modified_codes == IF has_key THEN modified_cpt_codes ELSE cpt_codes
        kept == SelectSeq(modified_codes, IsStrOrInt)
        sanitized_codes == [i \in 1..Len(kept) |-> Cut10(kept[i])]
    IN IF Len(sanitized_codes) = Len(cpt_codes) THEN sanitized_codes ELSE cpt_codes

\* ------------------------------------------------- what the AI can answer
\* synthesize_and_extract_claim_data: any JSON object. well_typed: whether
\* ClaimUpdate(**data) accepts the values; has_service_lines: whether the
\* object has a "service_lines" key
ExtractionResults ==
    {[payer_name |-> "HealthFirst", well_typed |-> TRUE, has_service_lines |-> TRUE,
      service_lines |-> <<[cpt_code |-> "99214"]>>],
     [payer_name |-> "HealthFirst", well_typed |-> TRUE, has_service_lines |-> FALSE,
      service_lines |-> <<>>],
     [payer_name |-> "HealthFirst", well_typed |-> FALSE, has_service_lines |-> FALSE,
      service_lines |-> <<>>]}

\* generate_medical_codes
SuggestResults ==
    {[suggested_cpt_codes |-> c, icd10_search_terms |-> t] :
        c \in {<<>>, <<"99214">>}, t \in {<<>>, <<"ankle sprain">>}}

\* select_final_icd10_codes: response_dict.get("selected_icd10_codes", [])
SelectResults == {<<>>, <<"S93401A">>, <<"Z9999">>}

\* check_compliance_and_refine: has_flags is whether the object has the key
ComplianceResults ==
    {[has_flags |-> FALSE, compliance_flags |-> <<>>],
     [has_flags |-> TRUE, compliance_flags |-> <<>>],
     [has_flags |-> TRUE, compliance_flags |-> <<"Missing modifier 25">>]}

\* the modifier AI's "modified_cpt_codes"
ModifierResults(cpt_codes) ==
    {[has_key |-> FALSE, modified_cpt_codes |-> <<>>],
     [has_key |-> TRUE, modified_cpt_codes |-> <<>>],
     [has_key |-> TRUE,
      modified_cpt_codes |-> [i \in 1..Len(cpt_codes) |-> "99214-25"]]}



\* --------------------------------------------- the claim-creation job
\* Locals of process_claim_creation (a local that is read no more is reset).
\* Ghost fields: called_parse / called_ai say whether the run has made an
\* external parse / LLM call, outcome says how the run ended, claim_updated
\* and lines_replaced whether update_claim and the service-line replacement
\* of this run have been committed, stages lists the stages of the run that
\* have returned, embedding what the retrieval step's embedding call met.
IdleJob ==
    [pc |-> "none", ndocs |-> 0, i |-> 0, stages |-> <<>>,
     payer_name |-> NULL, has_service_lines |-> FALSE, extracted_lines |-> <<>>,
     suggested_cpt_codes |-> <<>>, icd10_search_terms |-> <<>>,
     candidates |-> <<>>, embedding |-> "none", final_icd10_codes |-> <<>>,
     cpt_codes |-> <<>>, icd10_codes |-> <<>>,
     eligibility_status |-> NULL, patient_resp |-> NULL,
     flags_returned |-> FALSE, compliance_flags |-> <<>>,
     called_parse |-> FALSE, called_ai |-> FALSE, outcome |-> "none",
     claim_updated |-> FALSE, lines_replaced |-> FALSE, pending_delete |-> FALSE]

\* the job has returned: its locals are gone, the ghost fields stay
Finished(j, outcome) ==
    [IdleJob EXCEPT !.pc = "done", !.outcome = outcome,
                    !.called_parse = j.called_parse, !.called_ai = j.called_ai,
                    !.claim_updated = j.claim_updated,
                    !.lines_replaced = j.lines_replaced]

\* tasks.py 208-211, the except block: update_claim_status(denied, message).
\* After a database error the session's transaction is inactive and the job
\* never rolls it back, so the status write raises too and the row stays.
handler_claim(c, message, db_error) ==
    IF db_error THEN c
    ELSE update_claim_status(c, "denied", InternalErrorPrefix \o message)

handler_outcome(db_error) == IF db_error THEN "crashed" ELSE "denied"

\* a variant of StageDone for a stage that is run twice
StageDoneTwice(j, stage) == [j EXCEPT !.stages = @ \o <<stage, stage>>]

\* a stage of the run has returned
StageDone(j, stage) == [j EXCEPT !.stages = Append(@, stage)]

\* the stages in the order process_claim_creation calls them (lines 140-186)
StageOrder == <<"Extraction", "Coding", "Eligibility", "Compliance", "Modifier">>

\* a stage raised: the except block runs and the job returns
Raise(j, message, db_error) ==
    /\ claim' = handler_claim(claim, message, db_error)
    /\ cj' = Finished(j, handler_outcome(db_error))

\* create_claim_from_upload: the claim row, one document per file, one job
Upload(files) ==
    /\ ~claim.exists
    /\ claim' = create_claim
    /\ documents' = documents \o
          [i \in 1..Len(files) |-> create_document_for_claim(files[i])]
    /\ cj' = [cj EXCEPT !.pc = "queued"]
    /\ UNCHANGED <<service_lines, benefits, aj, submits, adjudications, response, h, readers, pj, call>>

\* create_claim followed by process_claim_creation.delay, without files: the
\* patient owns only the documents that were uploaded to the patient
EnqueueClaimCreation ==
    /\ ~claim.exists
    /\ claim' = create_claim
    /\ cj' = [cj EXCEPT !.pc = "queued"]
    /\ UNCHANGED <<service_lines, documents, benefits, aj, submits, adjudications,
                   response, h, readers, pj, call>>

\* lines 107-116: load the claim, gather the patient's documents; without
\* documents the claim is denied and the job returns
CJ_Start ==
    /\ cj.pc = "queued"
    /\ IF Len(documents) = 0
       THEN /\ claim' = update_claim_status(claim, "denied", NoDocsReason)
            /\ cj' = Finished(cj, "no_docs")
       ELSE /\ cj' = [cj EXCEPT !.pc = "parse", !.ndocs = Len(documents), !.i = 1]
            /\ UNCHANGED claim
    /\ UNCHANGED <<service_lines, documents, benefits, aj, submits, adjudications,
                   response, h, readers, pj, call>>

\* after a document's text is obtained: next document, or the policy lookup
AfterParse(j) ==
    IF j.i < j.ndocs THEN [j EXCEPT !.pc = "parse", !.i = @ + 1]
    ELSE [j EXCEPT !.pc = "policy", !.i = 0, !.ndocs = 0]

\* get_or_parse_document_text lines 28-33, called by the creation job on
\* document d: a cached text is returned at once (the job goes on as `hit`),
\* otherwise the external parse call starts (the job waits at `waiting`)
CJ_CacheLookup(d, hit, waiting) ==
    cj' = IF IsCached(documents[d]) THEN hit
          ELSE [cj EXCEPT !.pc = waiting, !.called_parse = TRUE]

\* get_or_parse_document_text lines 33-44: the parse call comes back with a
\* text, which is saved, or raises; saving can raise too
CJ_ParseReturn(d, next) ==
    \/ \E text \in ParseTexts :
         /\ documents' = [documents EXCEPT ![d] = parse_saved_row(@, text)]
         /\ cj' = next
         /\ UNCHANGED claim
    \/ /\ Raise(cj, "ParseError", FALSE)
       /\ UNCHANGED documents
    \/ /\ Raise(cj, "DBError", TRUE)
       /\ UNCHANGED documents

\* lines 119-129: one iteration of the loop over all_patient_docs
CJ_Parse ==
    /\ cj.pc = "parse"
    /\ CJ_CacheLookup(cj.i, AfterParse(cj), "parsing")
    /\ UNCHANGED <<claim, service_lines, documents, benefits, aj, submits,
                   adjudications, response, h, readers, pj, call>>

CJ_Parsed ==
    /\ cj.pc = "parsing"
    /\ CJ_ParseReturn(cj.i, AfterParse(cj))
    /\ UNCHANGED <<service_lines, benefits, aj, submits, adjudications, response, h, readers, pj, call>>

\* lines 131-136: the first POLICY_DOC of the patient is looked up and its
\* text obtained once more
CJ_Policy ==
    /\ cj.pc = "policy"
    /\ LET policy_doc == find_document_by_purpose(documents, "POLICY_DOC")
       IN IF policy_doc = 0
          THEN cj' = [cj EXCEPT !.pc = "extract"]
          ELSE CJ_CacheLookup(policy_doc, [cj EXCEPT !.pc = "extract"],
                              "policy_parsing")
    /\ UNCHANGED <<claim, service_lines, documents, benefits, aj, submits,
                   adjudications, response, h, readers, pj, call>>

CJ_PolicyParsed ==
    /\ cj.pc = "policy_parsing"
    /\ CJ_ParseReturn(find_document_by_purpose(documents, "POLICY_DOC"),
                      [cj EXCEPT !.pc = "extract"])
    /\ UNCHANGED <<service_lines, benefits, aj, submits, adjudications, response, h, readers, pj, call>>

Called(j) == [j EXCEPT !.called_ai = TRUE]

\* lines 140-144: the extraction AI call, then ClaimUpdate(**extracted_claim_data)
CJ_Extract ==
    /\ cj.pc = "extract"
    /\ \/ \E r \in ExtractionResults :
            IF r.well_typed
            THEN /\ cj' = StageDone([Called(cj) EXCEPT !.pc = "suggest",
                                        !.payer_name = r.payer_name,
                                        !.has_service_lines = r.has_service_lines,
                                        !.extracted_lines = r.service_lines],
                                      "Extraction")
                 /\ UNCHANGED claim
            ELSE Raise(Called(cj), "ValidationError", FALSE)
       \/ Raise(Called(cj), "LLMError", FALSE)
    /\ UNCHANGED <<service_lines, documents, benefits, aj, submits, adjudications,
                   response, h, readers, pj, call>>

\* lines 151-152: generate_medical_codes
CJ_Suggest ==
    /\ cj.pc = "suggest"
    /\ \/ \E r \in SuggestResults :
            /\ cj' = [cj EXCEPT !.pc = "retrieve",
                         !.suggested_cpt_codes = r.suggested_cpt_codes,
                         !.icd10_search_terms = r.icd10_search_terms]
            /\ UNCHANGED claim
       \/ Raise(cj, "LLMError", FALSE)
    /\ UNCHANGED <<service_lines, documents, benefits, aj, submits, adjudications,
                   response, h, readers, pj, call>>

\* line 153: find_similar_icd10_codes; an embedding failure is swallowed, an
\* error of the catalog query is not
CJ_Retrieve ==
    /\ cj.pc = "retrieve"
    /\ \/ \E outcome \in EmbeddingOutcomes :
            LET r == find_similar_icd10_codes(cj.icd10_search_terms, outcome)
            IN /\ cj' = [cj EXCEPT !.pc = "select", !.icd10_search_terms = <<>>,
                            !.candidates = r.candidates,
                            !.embedding = r.embedding]
               /\ UNCHANGED claim
       \/ /\ Len(cj.icd10_search_terms) > 0
          /\ Raise(cj, "DBError", TRUE)
    /\ UNCHANGED <<service_lines, documents, benefits, aj, submits, adjudications,
                   response, h, readers, pj, call>>

\* line 154: select_final_icd10_codes
CJ_Select ==
    /\ cj.pc = "select"
    /\ \/ \E r \in SelectResults :
            /\ cj' = [cj EXCEPT !.pc = "validate", !.candidates = <<>>,
                         !.embedding = "none", !.final_icd10_codes = r]
            /\ UNCHANGED claim
       \/ Raise(cj, "LLMError", FALSE)
    /\ UNCHANGED <<service_lines, documents, benefits, aj, submits, adjudications,
                   response, h, readers, pj, call>>

\* lines 156-160: validate_codes
CJ_Validate ==
    /\ cj.pc = "validate"
    /\ \/ LET v == validate_codes(cj.suggested_cpt_codes, cj.final_icd10_codes)
          IN /\ cj' = StageDone([cj EXCEPT !.pc = "eligibility",
                          !.suggested_cpt_codes = <<>>, !.final_icd10_codes = <<>>,
                          !.cpt_codes = v.cpt_codes, !.icd10_codes = v.icd10_codes],
                                  "Coding")
             /\ UNCHANGED claim
       \/ /\ Len(cj.suggested_cpt_codes) + Len(cj.final_icd10_codes) > 0
          /\ Raise(cj, "DBError", TRUE)
    /\ UNCHANGED <<service_lines, documents, benefits, aj, submits, adjudications,
                   response, h, readers, pj, call>>

\* lines 164-172: check_claim_eligibility, results put into update_data
CJ_Eligibility ==
    /\ cj.pc = "eligibility"
    /\ \/ LET e == check_claim_eligibility(benefits)
          IN /\ cj' = StageDone([cj EXCEPT !.pc = "compliance",
                          !.eligibility_status = e[1], !.patient_resp = e[2]],
                                  "Eligibility")
             /\ UNCHANGED claim
       \/ Raise(cj, "DBError", TRUE)
    /\ UNCHANGED <<service_lines, documents, benefits, aj, submits, adjudications,
                   response, h, readers, pj, call>>

\* line 180: compliance_and_confidence.get("compliance_flags", [])
flags_of(r) == IF r.has_flags THEN r.compliance_flags ELSE <<>>

\* lines 174-180: check_compliance_and_refine
CJ_Compliance ==
    /\ cj.pc = "compliance"
    /\ \/ \E r \in ComplianceResults :
            /\ cj' = StageDone([cj EXCEPT !.pc = "modifier",
                                    !.flags_returned = r.has_flags,
                                    !.compliance_flags = flags_of(r)],
                                 "Compliance")
            /\ UNCHANGED claim
       \/ Raise(cj, "LLMError", FALSE)
    /\ UNCHANGED <<service_lines, documents, benefits, aj, submits, adjudications,
                   response, h, readers, pj, call>>

\* lines 182-190: apply_modifiers, then the codes are written back into
\* validated_codes['cpt_codes']
CJ_Modifier ==
    /\ cj.pc = "modifier"
    /\ LET cpt_code_strings == [i \in 1..Len(cj.cpt_codes) |-> cj.cpt_codes[i].code]
       IN \/ \E r \in ModifierResults(cpt_code_strings) :
               LET modified == apply_modifiers(cpt_code_strings, r.has_key,
                                               r.modified_cpt_codes)
               IN /\ cj' = StageDone([cj EXCEPT !.pc = "update_claim",
                              !.cpt_codes = [i \in 1..Len(cj.cpt_codes) |->
                                 IF i <= Len(modified)
                                 THEN [cj.cpt_codes[i] EXCEPT !.code = modified[i]]
                                 ELSE cj.cpt_codes[i]]], "Modifier")
                  /\ UNCHANGED claim
          \/ Raise(cj, "LLMError", FALSE)
    /\ UNCHANGED <<service_lines, documents, benefits, aj, submits, adjudications,
                   response, h, readers, pj, call>>


\* a variant of update_claim that writes only the extracted fields
update_claim_extracted_only(c, j) == [c EXCEPT !.payer_name = j.payer_name]

\* update_claim, lines 126-127: the fields of update_data are set on the row
update_claim(c, j) ==
    [c EXCEPT !.payer_name = j.payer_name,
              !.eligibility_status = j.eligibility_status,
              !.patient_responsibility_amount = j.patient_resp,
              !.compliance_flags = j.compliance_flags]

\* update_claim, lines 111-123: with a service_lines key the claim's lines
\* are replaced by the extraction's lines
update_claim_lines(lines, j) ==
    IF j.has_service_lines
    THEN [i \in 1..Len(j.extracted_lines) |->
            [cpt_code |-> j.extracted_lines[i].cpt_code, icd10_codes |-> <<>>]]
    ELSE lines

\* line 195: update_claim commits the row and the extraction's lines
CJ_UpdateClaim ==
    /\ cj.pc = "update_claim"
    /\ \/ /\ claim' = update_claim(claim, cj)
          /\ service_lines' = update_claim_lines(service_lines, cj)
          /\ cj' = [cj EXCEPT !.pc = "service_lines", !.claim_updated = TRUE,
                       !.has_service_lines = FALSE, !.extracted_lines = <<>>,
                       !.payer_name = NULL, !.patient_resp = NULL]
       \/ /\ Raise(cj, "DBError", TRUE)
          /\ UNCHANGED service_lines
    /\ UNCHANGED <<documents, benefits, aj, submits, adjudications, response, h, readers, pj, call>>

\* a variant of new_service_lines that merges into the lines already stored
new_service_lines_merged(cpt_codes, icd10_codes) ==
    service_lines \o
    [i \in 1..Len(cpt_codes) |->
       [cpt_code |-> cpt_codes[i].code,
        icd10_codes |-> [k \in 1..Len(icd10_codes) |-> icd10_codes[k].code]]]

\* create_service_lines_for_claim, lines 180-195: one line per validated CPT
\* code, each with the final ICD-10 list
new_service_lines(cpt_codes, icd10_codes) ==
    [i \in 1..Len(cpt_codes) |->
       [cpt_code |-> cpt_codes[i].code,
        icd10_codes |-> [k \in 1..Len(icd10_codes) |-> icd10_codes[k].code]]]

\* lines 198-203: create_service_lines_for_claim deletes the claim's lines and
\* inserts the new ones; it commits only when there is a line to insert,
\* otherwise the delete stays pending in the session
CJ_ServiceLines ==
    /\ cj.pc = "service_lines"
    /\ \/ /\ Len(cj.cpt_codes) > 0
          /\ service_lines' = new_service_lines(cj.cpt_codes, cj.icd10_codes)
          /\ cj' = [cj EXCEPT !.pc = "set_draft", !.lines_replaced = TRUE]
          /\ UNCHANGED claim
       \/ /\ Len(cj.cpt_codes) = 0
          /\ cj' = [cj EXCEPT !.pc = "set_draft", !.pending_delete = TRUE]
          /\ UNCHANGED <<claim, service_lines>>
       \/ /\ Raise(cj, "DBError", TRUE)
          /\ UNCHANGED service_lines
    /\ UNCHANGED <<documents, benefits, aj, submits, adjudications, response, h, readers, pj, call>>

\* line 205: update_claim_status(draft); its commit also commits a pending
\* delete of the service lines
CJ_SetDraft ==
    /\ cj.pc = "set_draft"
    /\ \/ /\ claim' = update_claim_status(claim, "draft", NULL)
          /\ service_lines' = IF cj.pending_delete THEN <<>> ELSE service_lines
          /\ cj' = Finished([cj EXCEPT !.lines_replaced = TRUE], "draft")
       \/ /\ Raise(cj, "DBError", TRUE)
          /\ UNCHANGED service_lines
    /\ UNCHANGED <<documents, benefits, aj, submits, adjudications, response, h, readers, pj, call>>

\* ----------------------------------------------------- the submit endpoint
\* a variant of submitted_claim that records no date
submitted_claim_no_date(c, now) == [c EXCEPT !.status = "submitted"]

\* simulate_claim_outcome, lines 84-85: status and submission_date are set
\* whatever the current status is
submitted_claim(c, now) == [c EXCEPT !.status = "submitted", !.submission_date = now]

\* simulate_claim_outcome: the write, one adjudication job dispatched, the
\* refreshed row returned
Submit ==
    /\ claim.exists
    /\ submits < MaxSubmits
    /\ submits' = submits + 1
    /\ claim' = submitted_claim(claim, submits')
    /\ aj' = [aj EXCEPT !.queued = @ + 1, !.last = "none"]
    /\ response' = [status |-> claim'.status]
    /\ UNCHANGED <<service_lines, documents, benefits, cj, adjudications, h, readers, pj, call>>

\* ------------------------------------------------- the adjudication job
\* The jobs dispatched run concurrently and do not differ: aj counts them per
\* position (queued, waiting for the parser, about to call the AI). Ghost
\* field last: what the AI call of the job that returned last gave.
NoAdjudication == [queued |-> 0, parsing |-> 0, ai |-> 0, last |-> "none"]

\* adjudicate_claim_as_payer: any JSON object; NULL stands for a missing key
AdjudicationResults ==
    {[decision |-> "approved", payer_paid_amount |-> "275.00", denial_reason |-> NULL,
      root_cause |-> NULL, recommended_action |-> NULL],
     [decision |-> "denied", payer_paid_amount |-> NULL,
      denial_reason |-> "Service requires prior authorization.",
      root_cause |-> "No PA number", recommended_action |-> "Obtain PA"],
     [decision |-> "denied", payer_paid_amount |-> NULL, denial_reason |-> NULL,
      root_cause |-> NULL, recommended_action |-> NULL],
     [decision |-> "banana", payer_paid_amount |-> NULL, denial_reason |-> NULL,
      root_cause |-> NULL, recommended_action |-> NULL],
     [decision |-> NULL, payer_paid_amount |-> "275.00", denial_reason |-> NULL,
      root_cause |-> NULL, recommended_action |-> NULL]}

\* a variant of adjudicated_claim that takes any decision value as the status
adjudicated_claim_unchecked(c, r, now) ==
    [c EXCEPT !.adjudication_date = now,
              !.status = IF r.decision = NULL THEN @ ELSE r.decision]

\* tasks.py 244-263 and update_claim_adjudication: the keys of update_data are
\* set on the row
adjudicated_claim(c, r, now) ==
    IF r.decision = "approved"
    THEN [c EXCEPT !.adjudication_date = now, !.status = "approved",
                   !.payer_paid_amount = r.payer_paid_amount]
    ELSE IF r.decision = "denied"
    THEN [c EXCEPT !.adjudication_date = now, !.status = "denied",
                   !.denial_reason = r.denial_reason,
                   !.denial_root_cause = r.root_cause,
                   !.denial_recommended_action = r.recommended_action]
    ELSE [c EXCEPT !.adjudication_date = now, !.status = "denied",
                   !.denial_reason = InvalidAdjudicationReason]

\* lines 226-236: load the claim, look for the policy document (without one
\* the job returns), look up its cached text
AJ_Start ==
    /\ aj.queued > 0
    /\ LET policy_doc == find_document_by_purpose(documents, "POLICY_DOC")
       IN aj' = IF policy_doc = 0
                THEN [aj EXCEPT !.queued = @ - 1, !.last = "no_policy"]
                ELSE IF IsCached(documents[policy_doc])
                THEN [aj EXCEPT !.queued = @ - 1, !.ai = @ + 1]
                ELSE [aj EXCEPT !.queued = @ - 1, !.parsing = @ + 1]
    /\ UNCHANGED <<claim, service_lines, documents, benefits, cj, submits,
                   adjudications, response, h, readers, pj, call>>

\* line 236, the parse call comes back; an exception is only logged (266-267)
AJ_Parsed ==
    /\ aj.parsing > 0
    /\ LET policy_doc == find_document_by_purpose(documents, "POLICY_DOC")
       IN \/ \E text \in ParseTexts :
               /\ documents' = [documents EXCEPT ![policy_doc] = parse_saved_row(@, text)]
               /\ aj' = [aj EXCEPT !.parsing = @ - 1, !.ai = @ + 1]
          \/ /\ aj' = [aj EXCEPT !.parsing = @ - 1, !.last = "parse_raised"]
             /\ UNCHANGED documents
    /\ UNCHANGED <<claim, service_lines, benefits, cj, submits, adjudications,
                   response, h, readers, pj, call>>

\* what is remembered of the AI's answer
decision_of(r) == IF r.decision = NULL THEN "missing" ELSE r.decision

\* lines 241-267: the AI call and the write of its decision; an exception of
\* the call (transport error, malformed or non-object JSON) is only logged
AJ_Adjudicate ==
    /\ aj.ai > 0
    /\ \/ \E r \in AdjudicationResults :
            /\ adjudications' = adjudications + 1
            /\ claim' = adjudicated_claim(claim, r, adjudications')
            /\ aj' = [aj EXCEPT !.ai = @ - 1, !.last = decision_of(r)]
       \/ /\ aj' = [aj EXCEPT !.ai = @ - 1, !.last = "ai_raised"]
          /\ UNCHANGED <<claim, adjudications>>
    /\ UNCHANGED <<service_lines, documents, benefits, cj, submits, response, h, readers, pj, call>>

\* ------------------------------------------- get_or_parse_document_text
\* A caller that calls get_or_parse_document_text on documents[1] again and
\* again, each call after the one before has returned. calls: calls finished;
\* parse_calls: external parse calls made; fresh: the document had never been
\* parsed at the start; returned: what each call gave back.
IdleHarness ==
    [calls |-> 0, waiting |-> FALSE, parse_calls |-> 0, fresh |-> FALSE,
     returned |-> <<>>]

Returned(text) == [raised |-> FALSE, text |-> text]
Raised == [raised |-> TRUE, text |-> NULL]

\* lines 28-33: the cached text is returned, or the external parse call starts
H_Call ==
    /\ Len(documents) = 1
    /\ ~h.waiting
    /\ h.calls < MaxCalls
    /\ h' = IF IsCached(documents[1])
            THEN [h EXCEPT !.calls = @ + 1,
                           !.returned = Append(@, Returned(documents[1].parsed_text))]
            ELSE [h EXCEPT !.waiting = TRUE, !.parse_calls = @ + 1]
    /\ UNCHANGED <<claim, service_lines, documents, benefits, cj, aj, submits,
                   adjudications, response, readers, pj, call>>

\* lines 33-44: the parser's text is saved and returned, or the call raises
H_Return ==
    /\ h.waiting
    /\ \/ \E text \in ParseTexts :
            /\ documents' = [documents EXCEPT ![1] = parse_saved_row(@, text)]
            /\ h' = [h EXCEPT !.waiting = FALSE, !.calls = @ + 1,
                              !.returned = Append(@, Returned(text))]
       \/ /\ h' = [h EXCEPT !.waiting = FALSE, !.calls = @ + 1,
                            !.returned = Append(@, Raised)]
          /\ UNCHANGED documents
    /\ UNCHANGED <<claim, service_lines, benefits, cj, aj, submits, adjudications,
                   response, readers, pj, call>>

\* the harness variables of the other specifications, at rest
NoPolicyJob == [pc |-> "none"]
NoCall == [fn |-> "none"]

\* ------------------------------------------------------------ the system

\* the patient before the claim is created: nothing on file, or a policy
\* document already processed (its text cached, its benefits stored)
InitPatient ==
    \/ documents = <<>> /\ benefits = <<>>
    \/ /\ documents = <<[document_purpose |-> "POLICY_DOC", parsed_text |-> "# note"]>>
       /\ benefits = <<[benefit_type |-> "Office Visit", co_pay_amount |-> "25.0",
                        source_document_id |-> 1]>>

Init ==
    /\ claim = NoClaim
    /\ service_lines = <<>>
    /\ InitPatient
    /\ cj = IdleJob
    /\ aj = NoAdjudication
    /\ submits = 0
    /\ adjudications = 0
    /\ response = [status |-> NULL]
    /\ h = IdleHarness
    /\ readers = <<>>
    /\ pj = NoPolicyJob
    /\ call = NoCall

FileLists == UNION {[1..n -> Purposes] : n \in 1..MaxFiles}

Next ==
    \/ \E files \in FileLists : Upload(files)
    \/ EnqueueClaimCreation
    \/ CJ_Start \/ CJ_Parse \/ CJ_Parsed \/ CJ_Policy \/ CJ_PolicyParsed
    \/ CJ_Extract \/ CJ_Suggest \/ CJ_Retrieve \/ CJ_Select \/ CJ_Validate
    \/ CJ_Eligibility \/ CJ_Compliance \/ CJ_Modifier
    \/ CJ_UpdateClaim \/ CJ_ServiceLines \/ CJ_SetDraft
    \/ Submit
    \/ AJ_Start \/ AJ_Parsed \/ AJ_Adjudicate

Spec == Init /\ [][Next]_vars


\* one document of the patient, never parsed or parsed before (to any text)
InitCache ==
    /\ claim = create_claim
    /\ service_lines = <<>>
    /\ \E purpose \in Purposes, text \in {NULL} \cup ParseTexts :
          /\ documents = <<parse_saved_row(create_document_for_claim(purpose), text)>>
          /\ h = [IdleHarness EXCEPT !.fresh = (text = NULL)]
    /\ benefits = <<>>
    /\ cj = IdleJob
    /\ aj = NoAdjudication
    /\ submits = 0
    /\ adjudications = 0
    /\ response = [status |-> NULL]
    /\ readers = <<>>
    /\ pj = NoPolicyJob
    /\ call = NoCall

NextCache == H_Call \/ H_Return

SpecCache == InitCache /\ [][NextCache]_vars

\* --------------------------------- jobs reading one document concurrently
\* The Celery tasks that call get_or_parse_document_text on a policy document
JobKinds == {"process_claim_creation", "process_policy_document", "process_adjudication"}

\* a job about to call get_or_parse_document_text on documents[1]
NewReader(kind) == [kind |-> kind, pc |-> "start", text |-> NULL]

\* lines 28-33 in job r: the cached text is returned, or the external parse
\* call starts (h.parse_calls counts the external parse calls)
R_Lookup(r) ==
    /\ readers[r].pc = "start"
    /\ IF IsCached(documents[1])
       THEN /\ readers' = [readers EXCEPT ![r].pc = "returned",
                                          ![r].text = documents[1].parsed_text]
            /\ UNCHANGED h
       ELSE /\ readers' = [readers EXCEPT ![r].pc = "parsing"]
            /\ h' = [h EXCEPT !.parse_calls = @ + 1]
    /\ UNCHANGED <<claim, service_lines, documents, benefits, cj, aj, submits,
                   adjudications, response, pj, call>>

\* lines 33-44 in job r: the parser's text is saved and returned, or the call
\* raises
R_Return(r) ==
    /\ readers[r].pc = "parsing"
    /\ \/ \E text \in ParserOutputs :
            /\ documents' = [documents EXCEPT ![1] = parse_saved_row(@, text)]
            /\ readers' = [readers EXCEPT ![r].pc = "returned", ![r].text = text]
       \/ /\ readers' = [readers EXCEPT ![r].pc = "raised"]
          /\ UNCHANGED documents
    /\ UNCHANGED <<claim, service_lines, benefits, cj, aj, submits, adjudications,
                   response, h, pj, call>>

\* a policy document of the patient, never parsed or parsed before, and the
\* jobs dispatched for it
InitReaders ==
    /\ claim = create_claim
    /\ service_lines = <<>>
    /\ \E text \in {NULL} \cup ParseTexts :
          documents = <<parse_saved_row(create_document_for_claim("POLICY_DOC"), text)>>
    /\ benefits = <<>>
    /\ cj = IdleJob
    /\ aj = NoAdjudication
    /\ submits = 0
    /\ adjudications = 0
    /\ response = [status |-> NULL]
    /\ h = IdleHarness
    /\ \E n \in 1..MaxReaders :
          \E kinds \in [1..n -> JobKinds] :
             readers = [r \in 1..n |-> NewReader(kinds[r])]
    /\ pj = NoPolicyJob
    /\ call = NoCall

NextReaders ==
    \/ \E r \in 1..Len(readers) : R_Lookup(r)
    \/ \E r \in 1..Len(readers) : R_Return(r)

SpecReaders == InitReaders /\ [][NextReaders]_vars

\* ------------------------------------------- one call of a stage function
\* sequences over S of length 0..n
SeqsUpTo(S, n) == UNION {[1..k -> S] : k \in 0..n}

\* code values an AI stage can suggest
CodeValues == {"99214", "S93401A", "Z9999"}

\* elements of the modifier AI's modified_cpt_codes array
ModifiedElements == {"99214-25", "99214-25-MODIFIER", NotACode}

\* policy_benefits rows of one patient
BenefitRows ==
    [benefit_type : BenefitTypes, co_pay_amount : {NULL, "0", "25.0"},
     source_document_id : {1}]

\* the arguments of the call and, once it has returned, its result
NewCall(fn) ==
    [fn |-> fn, done |-> FALSE, result |-> <<>>, service_codes |-> <<>>,
     suggested_cpt_codes |-> <<>>, suggested_icd10_codes |-> <<>>,
     cpt_codes |-> <<>>, has_key |-> FALSE, modified_cpt_codes |-> <<>>]

\* check_claim_eligibility(db, patient_id, service_codes): service_codes is
\* never read
Call_check_claim_eligibility ==
    /\ call.fn = "check_claim_eligibility" /\ ~call.done
    /\ call' = [call EXCEPT !.done = TRUE, !.result = check_claim_eligibility(benefits)]
    /\ UNCHANGED <<claim, service_lines, documents, benefits, cj, aj, submits,
                   adjudications, response, h, readers, pj>>

Call_validate_codes ==
    /\ call.fn = "validate_codes" /\ ~call.done
    /\ call' = [call EXCEPT !.done = TRUE,
                  !.result = validate_codes(call.suggested_cpt_codes,
                                            call.suggested_icd10_codes)]
    /\ UNCHANGED <<claim, service_lines, documents, benefits, cj, aj, submits,
                   adjudications, response, h, readers, pj>>

Call_apply_modifiers ==
    /\ call.fn = "apply_modifiers" /\ ~call.done
    /\ call' = [call EXCEPT !.done = TRUE,
                  !.result = apply_modifiers(call.cpt_codes, call.has_key,
                                             call.modified_cpt_codes)]
    /\ UNCHANGED <<claim, service_lines, documents, benefits, cj, aj, submits,
                   adjudications, response, h, readers, pj>>

\* the arguments of one call, and the rows it reads
InitStages ==
    /\ claim = create_claim
    /\ service_lines = <<>>
    /\ documents = <<>>
    /\ cj = IdleJob
    /\ aj = NoAdjudication
    /\ submits = 0
    /\ adjudications = 0
    /\ response = [status |-> NULL]
    /\ h = IdleHarness
    /\ readers = <<>>
    /\ pj = NoPolicyJob
    /\ \/ /\ benefits \in SeqsUpTo(BenefitRows, MaxBenefits)
          /\ \E codes \in SeqsUpTo({"99214"}, MaxCodes) :
                call = [NewCall("check_claim_eligibility") EXCEPT !.service_codes = codes]
       \/ /\ benefits = <<>>
          /\ \E cpt \in SeqsUpTo(CodeValues, MaxCodes),
                icd \in SeqsUpTo(CodeValues, MaxCodes) :
                call = [NewCall("validate_codes") EXCEPT
                           !.suggested_cpt_codes = cpt, !.suggested_icd10_codes = icd]
       \/ /\ benefits = <<>>
          /\ \E cpt \in SeqsUpTo({"99214", "99213"}, MaxCodes), has_key \in BOOLEAN,
                modified \in SeqsUpTo(ModifiedElements, MaxCodes) :
                call = [NewCall("apply_modifiers") EXCEPT
                           !.cpt_codes = cpt, !.has_key = has_key,
                           !.modified_cpt_codes = modified]

NextStages ==
    \/ Call_check_claim_eligibility
    \/ Call_validate_codes
    \/ Call_apply_modifiers

SpecStages == InitStages /\ [][NextStages]_vars

\* ------------------------------------------- the policy-document job
\* the "benefits" array of the policy AI: objects whose benefit_type may be
\* missing (NULL)
ExtractedBenefits ==
    [benefit_type : BenefitTypes \cup {NULL}, co_pay_amount : {NULL, "25.0"}]

\* create_benefits_for_patient, lines 16-23: the row made of one object
benefit_row(benefit_dict, source_document_id) ==
    [benefit_type |-> benefit_dict.benefit_type,
     co_pay_amount |-> benefit_dict.co_pay_amount,
     source_document_id |-> source_document_id]

\* rows whose source is (keep = TRUE) or is not (keep = FALSE) the document
BenefitsOfSource(bs, source_document_id, keep) ==
    LET Test(b) == (b.source_document_id = source_document_id) = keep
    IN SelectSeq(bs, Test)

\* a variant of create_benefits_for_patient that deletes nothing
create_benefits_appending(bs, source_document_id, benefits_data) ==
    bs \o [i \in 1..Len(benefits_data) |->
             benefit_row(benefits_data[i], source_document_id)]

\* create_benefits_for_patient: the rows of the source document are deleted,
\* one row per object is inserted
create_benefits_for_patient(bs, source_document_id, benefits_data) ==
    BenefitsOfSource(bs, source_document_id, FALSE) \o
       [i \in 1..Len(benefits_data) |->
          benefit_row(benefits_data[i], source_document_id)]

\* policy_benefits.benefit_type is NOT NULL: the insert of such a row fails
Insertable(benefits_data) ==
    \A i \in 1..Len(benefits_data) : benefits_data[i].benefit_type # NULL

\* Ghost fields: outcomes lists how each run ended, extracted is the array
\* the AI gave to the last run that reached the write, others the benefits
\* the patient had from other documents before the first run
IdlePolicyJob ==
    [pc |-> "idle", outcomes |-> <<>>, extracted |-> <<>>, others |-> <<>>]

\* the run ends (the except block only logs)
PolicyRunEnds(j, outcome) ==
    [j EXCEPT !.pc = "idle", !.outcomes = Append(@, outcome)]

\* process_policy_document.delay for documents[1], after the run before it
\* has returned
PJ_Dispatch ==
    /\ pj.pc = "idle"
    /\ Len(pj.outcomes) < MaxRuns
    /\ pj' = [pj EXCEPT !.pc = "queued"]
    /\ UNCHANGED <<claim, service_lines, documents, benefits, cj, aj, submits,
                   adjudications, response, h, readers, call>>

\* lines 55-60: load the document, look up its cached text
PJ_Start ==
    /\ pj.pc = "queued"
    /\ pj' = [pj EXCEPT !.pc = IF IsCached(documents[1]) THEN "extract" ELSE "parsing"]
    /\ UNCHANGED <<claim, service_lines, documents, benefits, cj, aj, submits,
                   adjudications, response, h, readers, call>>

\* line 60: the parse call comes back
PJ_Parsed ==
    /\ pj.pc = "parsing"
    /\ \/ \E text \in ParseTexts :
            /\ documents' = [documents EXCEPT ![1] = parse_saved_row(@, text)]
            /\ pj' = [pj EXCEPT !.pc = "extract"]
       \/ /\ pj' = PolicyRunEnds(pj, "failed")
          /\ UNCHANGED documents
    /\ UNCHANGED <<claim, service_lines, benefits, cj, aj, submits, adjudications,
                   response, h, readers, call>>

\* lines 76-87: the AI call and create_benefits_for_patient; when the call
\* raises or the insert fails nothing is committed
PJ_Extract ==
    /\ pj.pc = "extract"
    /\ \/ \E benefits_data \in SeqsUpTo(ExtractedBenefits, MaxBenefits) :
            IF Insertable(benefits_data)
            THEN /\ benefits' = create_benefits_for_patient(benefits, 1, benefits_data)
                 /\ pj' = [PolicyRunEnds(pj, "saved") EXCEPT !.extracted = benefits_data]
            ELSE /\ pj' = PolicyRunEnds(pj, "failed")
                 /\ UNCHANGED benefits
       \/ /\ pj' = PolicyRunEnds(pj, "failed")
          /\ UNCHANGED benefits
    /\ UNCHANGED <<claim, service_lines, documents, cj, aj, submits, adjudications,
                   response, h, readers, call>>

\* the rows the patient has from another policy document (documents[2])
OtherBenefits ==
    <<[benefit_type |-> "Emergency Room", co_pay_amount |-> "100.0",
       source_document_id |-> 2]>>

\* a policy document uploaded to the patient, who may hold benefits of another
InitPolicy ==
    /\ claim = NoClaim
    /\ service_lines = <<>>
    /\ documents = <<create_document_for_claim("POLICY_DOC"),
                     parse_saved_row(create_document_for_claim("POLICY_DOC"), "# note")>>
    /\ benefits \in {<<>>, OtherBenefits}
    /\ cj = IdleJob
    /\ aj = NoAdjudication
    /\ submits = 0
    /\ adjudications = 0
    /\ response = [status |-> NULL]
    /\ h = IdleHarness
    /\ readers = <<>>
    /\ pj = [IdlePolicyJob EXCEPT !.others = benefits]
    /\ call = NoCall

NextPolicy == PJ_Dispatch \/ PJ_Start \/ PJ_Parsed \/ PJ_Extract

SpecPolicy == InitPolicy /\ [][NextPolicy]_vars

\* ------------------------------------------------- the LLM chat helpers
\* the functions of services/llm_service.py that the claim-creation and
\* adjudication jobs call; each makes its chat call through
\* _call_llm_with_json_response
PipelineCallers ==
    {"synthesize_and_extract_claim_data", "generate_medical_codes",
     "select_final_icd10_codes", "check_compliance_and_refine",
     "apply_modifiers", "adjudicate_claim_as_payer"}

\* what one attempt of the external chat call can produce: content that is
\* JSON, content that is not, no content, a rate-limit rejection, a
\* transport error
RateLimitError == "RateLimitError"
APIConnectionError == "APIConnectionError"
Replies == {"json", "not json", "empty", RateLimitError, APIConnectionError}

\* retry_delay_seconds of call_llm_with_reasoning
retry_delay_seconds == 15

\* Ghost fields: outcomes lists what each external attempt of the call
\* produced, delays the sleeps taken between attempts.
IdleLLM ==
    [fn |-> "none", caller |-> "none", pc |-> "none", retries |-> 0,
     is_json |-> FALSE, attempt |-> 0, outcomes |-> <<>>, delays |-> <<>>]

LLMEnded == call.pc \in {"none", "returned", "raised"}

\* a pipeline stage function calls _call_llm_with_json_response; lines 44-45:
\* without a client it raises before any external call
Json_Begin ==
    /\ LLMEnded
    /\ \E caller \in PipelineCallers, client \in BOOLEAN :
         call' = [IdleLLM EXCEPT !.fn = "_call_llm_with_json_response",
                                 !.caller = caller,
                                 !.pc = IF client THEN "calling" ELSE "raised"]
    /\ UNCHANGED <<claim, service_lines, documents, benefits, cj, aj, submits,
                   adjudications, response, h, readers, pj>>

\* lines 47-60: one chat call; json.loads of the content is returned, every
\* exception (of the call or of json.loads) is logged and raised again
Json_Attempt ==
    /\ call.fn = "_call_llm_with_json_response"
    /\ call.pc = "calling"
    /\ \E reply \in Replies :
         call' = [call EXCEPT !.outcomes = Append(@, reply),
                              !.pc = IF reply = "json" THEN "returned"
                                     ELSE "raised"]
    /\ UNCHANGED <<claim, service_lines, documents, benefits, cj, aj, submits,
                   adjudications, response, h, readers, pj>>

\* the chat endpoint of api/routers/meriplex.py calls call_llm_with_reasoning;
\* lines 34-35: without a client it raises before any external call
Reasoning_Begin ==
    /\ LLMEnded
    /\ \E retries \in 0..MaxRetries, is_json \in BOOLEAN, client \in BOOLEAN :
         call' = [IdleLLM EXCEPT !.fn = "call_llm_with_reasoning",
                                 !.caller = "chat_with_documents",
                                 !.retries = retries, !.is_json = is_json,
                                 !.pc = IF client THEN "calling" ELSE "raised"]
    /\ UNCHANGED <<claim, service_lines, documents, benefits, cj, aj, submits,
                   adjudications, response, h, readers, pj>>

\* lines 38-74: one pass of the loop. Empty content raises ValueError; with
\* is_json the content goes through json.loads, else it is wrapped as the
\* answer; a RateLimitError sleeps when attempt < retries and is raised
\* otherwise; any other exception is raised again
Reasoning_Attempt ==
    /\ call.fn = "call_llm_with_reasoning"
    /\ call.pc = "calling"
    /\ \E reply \in Replies :
         call' = [call EXCEPT
                    !.outcomes = Append(@, reply),
                    !.pc = CASE reply = RateLimitError ->
                                  IF call.attempt < call.retries
                                  THEN "sleeping" ELSE "raised"
                             [] reply = APIConnectionError -> "raised"
                             [] reply = "empty" -> "raised"
                             [] reply = "not json" ->
                                  IF call.is_json THEN "raised" ELSE "returned"
                             [] OTHER -> "returned"]
    /\ UNCHANGED <<claim, service_lines, documents, benefits, cj, aj, submits,
                   adjudications, response, h, readers, pj>>

\* line 68: asyncio.sleep(retry_delay_seconds), then the next pass of the loop
Reasoning_Sleep ==
    /\ call.fn = "call_llm_with_reasoning"
    /\ call.pc = "sleeping"
    /\ call' = [call EXCEPT !.delays = Append(@, retry_delay_seconds),
                            !.attempt = @ + 1, !.pc = "calling"]
    /\ UNCHANGED <<claim, service_lines, documents, benefits, cj, aj, submits,
                   adjudications, response, h, readers, pj>>

InitLLM ==
    /\ claim = NoClaim
    /\ service_lines = <<>>
    /\ documents = <<>>
    /\ benefits = <<>>
    /\ cj = IdleJob
    /\ aj = NoAdjudication
    /\ submits = 0
    /\ adjudications = 0
    /\ response = [status |-> NULL]
    /\ h = IdleHarness
    /\ readers = <<>>
    /\ pj = NoPolicyJob
    /\ call = IdleLLM

NextLLM ==
    \/ Json_Begin
    \/ Json_Attempt
    \/ Reasoning_Begin
    \/ Reasoning_Attempt
    \/ Reasoning_Sleep

SpecLLM == InitLLM /\ [][NextLLM]_vars

\* ------------------------------------------- the texts given to extraction
\* process_claim_creation lines 118-136: the dict parsed_docs. A text of the
\* dict is a sequence of pieces: the documents' texts and, between them, the
\* separator lines that name the added file.
PurposeKeys == Purposes \cup {"UNKNOWN"}

\* line 120: doc.document_purpose or 'UNKNOWN'
purpose_key(doc) ==
    IF doc.document_purpose = NULL THEN "UNKNOWN" ELSE doc.document_purpose

TextPiece(doc) == [kind |-> "text", value |-> doc.parsed_text]

\* line 125: "\n\n--- (Additional Document: {doc.file_name}) ---\n\n"
SeparatorPiece(doc) == [kind |-> "separator", value |-> doc.file_name]

\* lines 119-127 over the first n documents: the first text of a purpose
\* opens its entry, a later one is appended behind a separator. An entry
\* that is absent is the empty sequence.
RECURSIVE parsed_docs_loop(_, _)
parsed_docs_loop(docs, n) ==
    IF n = 0 THEN [p \in PurposeKeys |-> <<>>]
    ELSE LET before == parsed_docs_loop(docs, n - 1)
             purpose == purpose_key(docs[n])
         IN IF before[purpose] # <<>>
            THEN [before EXCEPT ![purpose] =
                    @ \o <<SeparatorPiece(docs[n]), TextPiece(docs[n])>>]
            ELSE [before EXCEPT ![purpose] = <<TextPiece(docs[n])>>]

\* lines 118-136: the loop, then the entry of POLICY_DOC is set to the text
\* of the first policy document
parsed_docs(docs) ==
    LET looped == parsed_docs_loop(docs, Len(docs))
        policy_doc == find_document_by_purpose(docs, "POLICY_DOC")
    IN IF policy_doc # 0
       THEN [looped EXCEPT !["POLICY_DOC"] = <<TextPiece(docs[policy_doc])>>]
       ELSE looped

\* the documents of a patient, each already parsed
DocumentRows(i) ==
    {[document_purpose |-> purpose, parsed_text |-> text,
      file_name |-> "file" \o ToString(i)] :
        purpose \in Purposes \cup {NULL}, text \in {"# note", "# card"}}

\* the job builds parsed_docs from the patient's documents
Call_parsed_docs ==
    /\ call.fn = "none"
    /\ call' = [fn |-> "parsed_docs", result |-> parsed_docs(documents)]
    /\ UNCHANGED <<claim, service_lines, documents, benefits, cj, aj, submits,
                   adjudications, response, h, readers, pj>>

InitDocs ==
    /\ claim = create_claim
    /\ service_lines = <<>>
    /\ \E n \in 1..MaxDocs :
         /\ documents \in [1..n -> UNION {DocumentRows(i) : i \in 1..n}]
         /\ \A i \in 1..n : documents[i] \in DocumentRows(i)
    /\ benefits = <<>>
    /\ cj = IdleJob
    /\ aj = NoAdjudication
    /\ submits = 0
    /\ adjudications = 0
    /\ response = [status |-> NULL]
    /\ h = IdleHarness
    /\ readers = <<>>
    /\ pj = NoPolicyJob
    /\ call = NoCall

NextDocs == Call_parsed_docs

SpecDocs == InitDocs /\ [][NextDocs]_vars

\* ------------------------------------------- the service lines of a run
\* process_claim_creation lines 174-203 on its own: the compliance answer,
\* the modifier stage, the codes written back, create_service_lines_for_claim.
\* Amounts are in cents; a Python dict is a function on its keys.
CptValues == {"99214", "20610"}

\* dict.get(key, default)
DictGet(dict, key, default) == IF key \in DOMAIN dict THEN dict[key] ELSE default

EmptyDict == [key \in {} |-> NULL]

\* crud_claim.py line 176: a later line of the same code replaces an earlier
charge_map(lines) ==
    [code \in {lines[i].cpt_code : i \in 1..Len(lines)} |->
        lines[CHOOSE i \in 1..Len(lines) :
                 /\ lines[i].cpt_code = code
                 /\ \A j \in (i + 1)..Len(lines) : lines[j].cpt_code # code].charge_amount]

\* round(total_charge / n, 2), in cents
RoundDiv(total, n) == (2 * total + n) \div (2 * n)

\* lines 165-171
charge_to_distribute(n, total_charge) ==
    IF n > 0 /\ total_charge > 0 THEN RoundDiv(total_charge, n) ELSE 0

\* a variant of create_service_lines_for_claim that prefers the charge map
create_service_lines_map_first(cpt_codes, icd10_codes, confidence_scores, diagnosis_pointers, total_charge, lines) ==
    LET share == charge_to_distribute(Len(cpt_codes), total_charge)
    IN [i \in 1..Len(cpt_codes) |->
          [cpt_code |-> cpt_codes[i].code,
           icd10_codes |-> [k \in 1..Len(icd10_codes) |-> icd10_codes[k].code],
           charge |-> DictGet(charge_map(lines), cpt_codes[i].code, share),
           code_confidence_score |->
              DictGet(confidence_scores, cpt_codes[i].code, NULL),
           diagnosis_pointer |-> DictGet(diagnosis_pointers, cpt_codes[i].code, "A")]]

\* create_service_lines_for_claim, lines 159-195: the rows it inserts
create_service_lines_for_claim(cpt_codes, icd10_codes, confidence_scores, diagnosis_pointers, total_charge, lines) ==
    LET share == charge_to_distribute(Len(cpt_codes), total_charge)
    IN [i \in 1..Len(cpt_codes) |->
          [cpt_code |-> cpt_codes[i].code,
           icd10_codes |-> [k \in 1..Len(icd10_codes) |-> icd10_codes[k].code],
           charge |-> IF share > 0 THEN share
                      ELSE DictGet(charge_map(lines), cpt_codes[i].code, 0),
           code_confidence_score |->
              DictGet(confidence_scores, cpt_codes[i].code, NULL),
           diagnosis_pointer |-> DictGet(diagnosis_pointers, cpt_codes[i].code, "A")]]

\* the extraction's "service_lines" and "total_charge_amount" (0: null or absent)
ExtractedLineLists ==
    {<<>>, <<[cpt_code |-> "99214", charge_amount |-> 150]>>,
     <<[cpt_code |-> "99214", charge_amount |-> 150],
       [cpt_code |-> "20610", charge_amount |-> 80]>>}
TotalCharges == {0, 100, 250}

\* the modifier AI's array for the codes: each code as it is or with "-25"
ModifiedLists(codes) ==
    {m \in [1..Len(codes) -> {c \o suffix : c \in CptValues, suffix \in {"", "-25"}}] :
        \A i \in 1..Len(codes) : m[i] \in {codes[i], codes[i] \o "-25"}}

\* the run after the compliance stage has answered: validated_codes, the
\* compliance answer (keyed by the codes it was shown) and the extraction
NewLinesCall(original, scored, pointed, total_charge, lines) ==
    [fn |-> "create_service_lines_for_claim", pc |-> "modifier",
     cpt_code_strings |-> original,
     cpt_codes |-> [i \in 1..Len(original) |->
                      [code |-> original[i], description |-> UnverifiedDescription]],
     icd10_codes |-> <<[code |-> "S93401A", description |-> "Ankle sprain"]>>,
     confidence_scores |->
        IF scored THEN [c \in Range(original) |-> "0.95"] ELSE EmptyDict,
     diagnosis_pointers |->
        IF pointed THEN [c \in Range(original) |-> "A,B"] ELSE EmptyDict,
     total_charge_amount |-> total_charge, service_lines |-> lines,
     result |-> <<>>]

\* tasks.py 182-190: apply_modifiers, then the codes are written back into
\* validated_codes['cpt_codes']
L_Modifier ==
    /\ call.fn = "create_service_lines_for_claim" /\ call.pc = "modifier"
    /\ \E answer \in ModifiedLists(call.cpt_code_strings) :
         LET modified == apply_modifiers(call.cpt_code_strings, TRUE, answer)
         IN call' = [call EXCEPT !.pc = "create",
                       !.cpt_codes = [i \in 1..Len(call.cpt_codes) |->
                          IF i <= Len(modified)
                          THEN [call.cpt_codes[i] EXCEPT !.code = modified[i]]
                          ELSE call.cpt_codes[i]]]
    /\ UNCHANGED <<claim, service_lines, documents, benefits, cj, aj, submits,
                   adjudications, response, h, readers, pj>>

\* tasks.py 198-203
L_CreateServiceLines ==
    /\ call.fn = "create_service_lines_for_claim" /\ call.pc = "create"
    /\ call' = [call EXCEPT !.pc = "done",
                  !.result = create_service_lines_for_claim(
                                call.cpt_codes, call.icd10_codes,
                                call.confidence_scores, call.diagnosis_pointers,
                                call.total_charge_amount, call.service_lines)]
    /\ UNCHANGED <<claim, service_lines, documents, benefits, cj, aj, submits,
                   adjudications, response, h, readers, pj>>

InitLines ==
    /\ claim = create_claim
    /\ service_lines = <<>>
    /\ documents = <<>>
    /\ benefits = <<>>
    /\ cj = IdleJob
    /\ aj = NoAdjudication
    /\ submits = 0
    /\ adjudications = 0
    /\ response = [status |-> NULL]
    /\ h = IdleHarness
    /\ readers = <<>>
    /\ pj = NoPolicyJob
    /\ \E original \in SeqsUpTo(CptValues, MaxCodes), scored \in BOOLEAN,
          pointed \in BOOLEAN, total_charge \in TotalCharges,
          lines \in ExtractedLineLists :
         call = NewLinesCall(original, scored, pointed, total_charge, lines)

NextLines ==
    \/ L_Modifier
    \/ L_CreateServiceLines

SpecLines == InitLines /\ [][NextLines]_vars

\* ================================================================ claims

\* the creation job takes its last step, returning with `outcome`
CJ_Returns(outcome) ==
    cj.pc \notin {"none", "done"} /\ cj'.pc = "done" /\ cj'.outcome = outcome

\* C1: a claim-creation job whose stages all complete without raising ends
\* with the claim in status draft, eligibility_status equal to what
\* check_claim_eligibility gives for the patient's benefits, and
\* compliance_flags equal to the compliance stage's flags, the empty list when
\* the stage returned none.
C1_SuccessEndsInDraft ==
    [][CJ_Returns("draft") =>
         /\ claim'.status = "draft"
         /\ claim'.eligibility_status = check_claim_eligibility(benefits)[1]
         /\ claim'.compliance_flags = cj.compliance_flags
         /\ (~cj.flags_returned => claim'.compliance_flags = <<>>)]_vars

C1_Witness ==
    /\ cj.outcome = "draft"
    /\ claim.status = "draft"
    /\ claim.eligibility_status = Active
    /\ claim.compliance_flags = <<"Missing modifier 25">>

\* C2: when the patient owns no document as process_claim_creation runs, the
\* job's one step denies the claim with the reason "No documents found for
\* patient.", returns without a parse or AI call, and leaves the claim's
\* service lines as they were: none.
C2_NoDocumentsDenies ==
    [][(cj.pc = "queued" /\ Len(documents) = 0 /\ cj'.pc # cj.pc) =>
         /\ claim'.status = "denied"
         /\ claim'.denial_reason = NoDocsReason
         /\ cj'.pc = "done"
         /\ ~cj'.called_parse /\ ~cj'.called_ai
         /\ service_lines' = service_lines /\ service_lines' = <<>>]_vars

C2_Witness ==
    /\ cj.outcome = "no_docs"
    /\ submits = 0
    /\ claim.status = "denied"
    /\ claim.denial_reason = NoDocsReason
    /\ service_lines = <<>>

\* messages of the exceptions the stages raise
StageErrors == {"ParseError", "ValidationError", "LLMError", "DBError"}

\* C3: whenever a stage of process_claim_creation after the load of the claim
\* raises, a database write error included, the job ends with the claim in
\* status denied and the exception's message in denial_reason.
C3_AnyFailureDenies ==
    [][(cj.pc \notin {"none", "queued", "done"} /\ cj'.pc = "done"
          /\ cj'.outcome # "draft") =>
         /\ claim'.status = "denied"
         /\ \E m \in StageErrors : claim'.denial_reason = InternalErrorPrefix \o m]_vars

\* C4: whenever the job sets the claim to draft, the claim-row update and the
\* service-line replacement of the same run are persisted; when either one
\* failed or was skipped, the run ends with the claim denied.
C4_DraftOnlyWithBothWrites ==
    [][(cj.pc \notin {"none", "done"} /\ cj'.pc = "done") =>
         /\ (claim'.status = "draft" /\ cj'.outcome = "draft" =>
               /\ cj'.claim_updated /\ cj'.lines_replaced
               /\ service_lines' = new_service_lines(cj.cpt_codes, cj.icd10_codes))
         /\ (~(cj'.claim_updated /\ cj'.lines_replaced) =>
               claim'.status = "denied" /\ cj'.outcome # "draft")]_vars

\* the edges of the claim state machine
Edges ==
    {<<"processing", "draft">>, <<"processing", "denied">>, <<"draft", "submitted">>,
     <<"submitted", "approved">>, <<"submitted", "denied">>,
     <<"denied", "resubmitted">>, <<"approved", "paid">>}

\* C5: under every interleaving of the endpoints and the jobs, each change of
\* the claim's status follows an edge of the state machine.
C5_StatusFollowsEdges ==
    [][(claim.exists /\ claim'.status # claim.status) =>
         <<claim.status, claim'.status>> \in Edges]_vars

\* C6: the submit operation on a claim in status draft sets the status to
\* submitted, records submission_date, enqueues exactly one adjudication job,
\* and answers with the claim as submitted.
C6_SubmitOfDraft ==
    [][(claim.exists /\ claim.status = "draft" /\ submits' # submits) =>
         /\ claim'.status = "submitted"
         /\ claim'.submission_date # NoDate
         /\ claim'.submission_date # claim.submission_date
         /\ aj'.queued = aj.queued + 1
         /\ aj'.parsing = aj.parsing /\ aj'.ai = aj.ai
         /\ response'.status = "submitted"]_vars

C6_Witness ==
    /\ cj.outcome = "draft"
    /\ submits = 1
    /\ claim.status = "submitted"
    /\ claim.submission_date = 1
    /\ aj.queued = 1
    /\ response.status = "submitted"

NoPolicyDocument ==
    \A i \in 1..Len(documents) : documents[i].document_purpose # "POLICY_DOC"

\* C7: when process_adjudication runs for a claim whose patient has no
\* document of purpose POLICY_DOC, it returns without an AI call and leaves
\* every field of the claim as it was.
C7_NoPolicyLeavesClaim ==
    [][(aj'.queued < aj.queued /\ NoPolicyDocument) =>
         /\ claim' = claim
         /\ adjudications' = adjudications
         /\ aj'.parsing = aj.parsing /\ aj'.ai = aj.ai]_vars

C7_Witness ==
    /\ aj.last = "no_policy"
    /\ aj.queued + aj.parsing + aj.ai = 0
    /\ NoPolicyDocument
    /\ claim.status = "submitted"
    /\ claim.adjudication_date = NoDate
    /\ claim.payer_paid_amount = NULL
    /\ claim.denial_reason = NULL

\* C8: when the adjudication AI returns an object whose decision is neither
\* "approved" nor "denied" (a missing key included), process_adjudication
\* ends with the claim denied and denial_reason "Processing Error: Invalid
\* adjudication response from AI.".
C8_InvalidDecisionDenies ==
    [][(aj'.ai < aj.ai /\ aj'.last \notin {"approved", "denied", "ai_raised"}) =>
         /\ claim'.status = "denied"
         /\ claim'.denial_reason = InvalidAdjudicationReason]_vars

C8_Witness ==
    /\ aj.last = "missing"
    /\ claim.status = "denied"
    /\ claim.denial_reason = InvalidAdjudicationReason
    /\ claim.adjudication_date # NoDate

\* C9: a submitted claim whose patient has a policy document is approved or
\* denied once its adjudication job has finished, whatever the AI call
\* returned or raised.
C9_AdjudicationAlwaysDecides ==
    [][(claim.status = "submitted" /\ ~NoPolicyDocument /\ aj'.ai < aj.ai) =>
         claim'.status \in {"approved", "denied"}]_vars

\* C10: two calls in sequence of get_or_parse_document_text on a document
\* never parsed before, whatever text the parser returns, make exactly one
\* external parse call and return the same text.
C10_ParseOnceSameText ==
    (h.fresh /\ h.calls = 2 /\ ~h.waiting
       /\ ~h.returned[1].raised /\ ~h.returned[2].raised) =>
      /\ h.parse_calls = 1
      /\ h.returned[1].text = h.returned[2].text

\* C11: across all jobs that read the same document concurrently, the
\* external parse service is invoked at most once for the document.
C11_ParsedAtMostOnce == h.parse_calls <= 1

\* a document whose text has been populated
IsPopulated(doc) == doc.parsed_text # NULL /\ doc.parsed_text # ""

\* C12: once a document's parsed_text is populated, no step of any job
\* changes its value.
C12_ParsedTextImmutable ==
    [][\A d \in 1..Len(documents) :
         IsPopulated(documents[d]) =>
            documents'[d].parsed_text = documents[d].parsed_text]_vars

\* C13: for a patient with no PolicyBenefit row, and every list of service
\* codes, check_claim_eligibility returns "Inactive - No Policy on File" and
\* responsibility 0.0; with at least one row the status is "Active".
C13_EligibilityContract ==
    (call.fn = "check_claim_eligibility" /\ call.done) =>
       /\ (Len(benefits) = 0 => call.result = <<InactiveNoPolicy, "0.0">>)
       /\ (Len(benefits) > 0 => call.result[1] = Active)

C13_Witness ==
    /\ call.fn = "check_claim_eligibility" /\ call.done
    /\ Len(benefits) = 0
    /\ Len(call.service_codes) > 0
    /\ call.result = <<InactiveNoPolicy, "0.0">>

\* code values the catalog holds as an entry of the type
CatalogCodes(type) == {m.code_value : m \in {x \in Catalog : x.code_type = type}}

\* C14: every entry of validate_codes' output icd10_codes is a code the
\* catalog holds as an ICD-10 entry.
C14_OnlyCatalogIcd10 ==
    (call.fn = "validate_codes" /\ call.done) =>
       \A i \in 1..Len(call.result.icd10_codes) :
          call.result.icd10_codes[i].code \in CatalogCodes("ICD-10")

\* C15: every suggested CPT code appears in validate_codes' output cpt_codes,
\* in input order, with the catalog's description when the catalog holds the
\* code and the placeholder description otherwise; the output has the length
\* of the suggested list.
C15_EveryCptKept ==
    (call.fn = "validate_codes" /\ call.done) =>
       LET suggested == call.suggested_cpt_codes
           out == call.result.cpt_codes
       IN /\ Len(out) = Len(suggested)
          /\ \A i \in 1..Len(out) :
                /\ out[i].code = suggested[i]
                /\ \/ \E m \in Catalog : /\ m.code_value = suggested[i]
                                         /\ out[i].description = m.description
                   \/ /\ \A m \in Catalog : m.code_value # suggested[i]
                      /\ out[i].description = UnverifiedDescription

C15_Witness ==
    /\ call.fn = "validate_codes" /\ call.done
    /\ call.suggested_cpt_codes = <<"99214", "Z9999">>
    /\ call.result.cpt_codes =
          <<[code |-> "99214", description |-> "Office visit"],
            [code |-> "Z9999", description |-> UnverifiedDescription]>>

\* C16: whenever the AI's modified_cpt_codes array has a length different from
\* the input list's, apply_modifiers returns the input list unchanged,
\* whatever the array's elements are.
C16_LengthMismatchFallsBack ==
    (call.fn = "apply_modifiers" /\ call.done /\ call.has_key
       /\ Len(call.modified_cpt_codes) # Len(call.cpt_codes)) =>
      call.result = call.cpt_codes

\* C17: whenever the candidate list passed to select_final_icd10_codes is
\* non-empty, the list it returns is non-empty, whatever the AI answers.
C17_SelectionNeverEmpty ==
    [][(cj.pc = "select" /\ cj'.pc = "validate" /\ Len(cj.candidates) > 0) =>
         Len(cj'.final_icd10_codes) > 0]_vars

\* C18: after two runs in sequence of the policy-document job for the same
\* document, the benefits whose source is the document are exactly those the
\* second run extracted, none of the first run's left and none duplicated,
\* and the benefits of other documents are as they were.
C18_SecondRunReplaces ==
    (pj.pc = "idle" /\ Len(pj.outcomes) >= 2
       /\ pj.outcomes[Len(pj.outcomes)] = "saved") =>
      /\ BenefitsOfSource(benefits, 1, TRUE) =
            [i \in 1..Len(pj.extracted) |-> benefit_row(pj.extracted[i], 1)]
      /\ BenefitsOfSource(benefits, 1, FALSE) = pj.others
      /\ Len(benefits) = Len(pj.extracted) + Len(BenefitsOfSource(benefits, 1, FALSE))

C18_Witness ==
    /\ pj.pc = "idle"
    /\ pj.outcomes = <<"saved", "saved">>
    /\ Len(pj.extracted) = 1
    /\ pj.extracted[1].benefit_type = "Office Visit"
    /\ pj.others = OtherBenefits
    /\ benefits = OtherBenefits \o <<benefit_row(pj.extracted[1], 1)>>

\* s is an initial part of t
IsPrefix(s, t) == Len(s) <= Len(t) /\ \A i \in 1..Len(s) : s[i] = t[i]

IsPipelineCall(c) == c.caller \in PipelineCallers

\* C20: an LLM chat call of the pipeline that is rejected for rate limiting
\* sleeps a fixed delay and is attempted again; no such call is attempted
\* more than twice; a failure of any other kind ends the call at once.
C20_RateLimitRetriedOnce ==
    /\ [][(/\ IsPipelineCall(call) /\ call.pc = "calling"
           /\ call.outcomes = <<>>
           /\ call'.outcomes = <<RateLimitError>>)
          => call'.pc = "sleeping"]_vars
    /\ [][(IsPipelineCall(call) /\ call.pc = "sleeping")
          => /\ call'.pc = "calling"
             /\ call'.delays = Append(call.delays, retry_delay_seconds)]_vars
    /\ [](IsPipelineCall(call) => Len(call.outcomes) <= 2)
    /\ [][(/\ IsPipelineCall(call) /\ call.pc = "calling"
           /\ Len(call'.outcomes) = Len(call.outcomes) + 1
           /\ call'.outcomes[Len(call'.outcomes)]
                 \in {APIConnectionError, "not json", "empty"})
          => call'.pc = "raised"]_vars

\* C21: when a claim-creation job reaches draft, the claim's service lines
\* are exactly one line per validated CPT code of the run (after modifier
\* rewriting), each with the run's final ICD-10 list; the lines that
\* update_claim stored from the extraction output are gone; nothing changes
\* the lines afterwards.
C21_DraftLinesAreTheRunsLines ==
    /\ [][(cj.pc = "set_draft" /\ cj'.outcome = "draft") =>
            /\ Len(service_lines') = Len(cj.cpt_codes)
            /\ \A i \in 1..Len(service_lines') :
                 /\ service_lines'[i].cpt_code = cj.cpt_codes[i].code
                 /\ service_lines'[i].icd10_codes =
                       [k \in 1..Len(cj.icd10_codes) |-> cj.icd10_codes[k].code]]_vars
    /\ [][cj.outcome = "draft" => service_lines' = service_lines]_vars

\* a run that reached draft after update_claim had stored an extraction line
\* and the modifier stage had rewritten the CPT code
C21_Witness ==
    /\ cj.outcome = "draft"
    /\ service_lines =
          <<[cpt_code |-> "99214-25", icd10_codes |-> <<"S93401A">>]>>

\* C22: with an empty search-term list find_similar_icd10_codes gives no
\* candidates and makes no embedding call; when the embedding call raises or
\* gives an empty vector it gives no candidates; in both cases the job goes
\* on to the selection step and the claim row is not touched.
C22_RetrievalDegrades ==
    [][(/\ cj.pc = "retrieve" /\ cj' # cj
        /\ \/ cj.icd10_search_terms = <<>>
           \/ cj'.embedding \in {"no client", "api error"})
       => /\ cj'.pc = "select"
          /\ cj'.candidates = <<>>
          /\ cj.icd10_search_terms = <<>> => cj'.embedding = "not called"
          /\ claim' = claim]_vars

\* the selection step is reached after an embedding call that failed
C22_Witness ==
    /\ cj.pc = "select"
    /\ cj.embedding \in {"no client", "api error"}
    /\ cj.candidates = <<>>
    /\ claim.status = "processing"

\* the texts of the documents with purpose key p, in the order of the documents
TextsOfPurpose(docs, p) ==
    LET HasKey(d) == purpose_key(d) = p
        of_p == SelectSeq(docs, HasKey)
    IN [i \in 1..Len(of_p) |-> of_p[i].parsed_text]

IsTextPiece(piece) == piece.kind = "text"

\* C23: for every purpose, POLICY_DOC included, the text passed to the
\* extraction stage under that purpose holds the parsed text of every
\* document of the patient with that purpose, each once and in order, with
\* separators between them.
C23_EveryTextMerged ==
    call.fn = "parsed_docs" =>
       \A p \in PurposeKeys :
          LET texts == SelectSeq(call.result[p], IsTextPiece)
          IN /\ [i \in 1..Len(texts) |-> texts[i].value] = TextsOfPurpose(documents, p)
             /\ Len(call.result[p]) = IF Len(texts) = 0 THEN 0 ELSE 2 * Len(texts) - 1

\* C24: whatever the modifier stage's AI call does (raise, or answer with a
\* modified_cpt_codes that cannot be used), the stage returns a list of as
\* many codes as it was given and the job goes on to persist: the claim is
\* not denied by this step.
C24_ModifierFailureContained ==
    [][(cj.pc = "modifier" /\ cj' # cj) =>
          /\ cj'.pc = "update_claim"
          /\ Len(cj'.cpt_codes) = Len(cj.cpt_codes)
          /\ claim' = claim]_vars

\* C25: whatever the selection AI returns, every ICD-10 code that the run
\* keeps after validation, and so stores on its service lines, is one of the
\* candidates the retrieval step returned in the same run; with no candidate
\* no ICD-10 code is kept.
C25_KeptIcd10AreCandidates ==
    [][(cj.pc = "select" /\ cj'.pc = "validate") =>
          LET kept == validate_codes(cj.suggested_cpt_codes,
                                     cj'.final_icd10_codes).icd10_codes
          IN \A k \in 1..Len(kept) : kept[k].code \in Range(cj.candidates)]_vars

\* the charge the extraction's service_lines give for a code, 0 without a line
ExtractedCharge(lines, code) ==
    IF \E i \in 1..Len(lines) : lines[i].cpt_code = code
    THEN lines[CHOOSE i \in 1..Len(lines) :
                  /\ lines[i].cpt_code = code
                  /\ \A j \in (i + 1)..Len(lines) : lines[j].cpt_code # code].charge_amount
    ELSE 0

C30_RewrittenLineKeepsScore ==
    (call.fn = "create_service_lines_for_claim" /\ call.pc = "done") =>
       \A i \in 1..Len(call.result) :
          call.result[i].cpt_code # call.cpt_code_strings[i] =>
             /\ call.cpt_code_strings[i] \in DOMAIN call.confidence_scores =>
                   call.result[i].code_confidence_score =
                      call.confidence_scores[call.cpt_code_strings[i]]
             /\ call.cpt_code_strings[i] \in DOMAIN call.diagnosis_pointers =>
                   call.result[i].diagnosis_pointer =
                      call.diagnosis_pointers[call.cpt_code_strings[i]]

\* C27: an adjudication answer "approved" sets the status to approved and
\* records the returned payer_paid_amount and the adjudication date, leaving
\* the three denial fields as they were; an answer "denied" sets the status
\* to denied and records the returned denial_reason, root_cause and
\* recommended_action, leaving payer_paid_amount as it was.
C27_AdjudicationFrame ==
    [][(adjudications' = adjudications + 1) =>
          /\ aj'.last = "approved" =>
               /\ claim'.status = "approved"
               /\ \E r \in AdjudicationResults :
                     /\ r.decision = "approved"
                     /\ claim'.payer_paid_amount = r.payer_paid_amount
               /\ claim'.adjudication_date = adjudications'
               /\ claim'.denial_reason = claim.denial_reason
               /\ claim'.denial_root_cause = claim.denial_root_cause
               /\ claim'.denial_recommended_action = claim.denial_recommended_action
          /\ aj'.last = "denied" =>
               /\ claim'.status = "denied"
               /\ \E r \in AdjudicationResults :
                     /\ r.decision = "denied"
                     /\ claim'.denial_reason = r.denial_reason
                     /\ claim'.denial_root_cause = r.root_cause
                     /\ claim'.denial_recommended_action = r.recommended_action
               /\ claim'.payer_paid_amount = claim.payer_paid_amount]_vars

\* an approval written over an earlier denial: the denial fields are kept
C27_Witness ==
    /\ aj.last = "approved"
    /\ claim.status = "approved"
    /\ claim.payer_paid_amount = "275.00"
    /\ claim.denial_reason = "Service requires prior authorization."
    /\ claim.denial_root_cause = "No PA number"

\* C28: under every interleaving of the submit endpoint, the creation job
\* and the adjudication jobs, an adjudication job writes its decision only
\* to a claim whose status is submitted at the moment of the write.
C28_AdjudicatesOnlySubmitted ==
    [][(adjudications' = adjudications + 1) => claim.status = "submitted"]_vars

\* C29: in every reachable state a claim whose status is denied has a
\* non-empty denial_reason, whichever job denied it.
C29_DeniedHasReason ==
    claim.status = "denied" => claim.denial_reason \notin {NULL, ""}

====
